---- MODULE Spec2Model ----
(***************************************************************************)
(* A model of elastico/src-tauri/src/elasticsearch.rs: the process-wide    *)
(* session store CONNECTION and client provider CLIENT, both behind a      *)
(* parking_lot Mutex, and the five command handlers that use them.  Every  *)
(* handler invocation is a task that runs its handler step by step; a step *)
(* boundary is a lock acquisition or an await of the network.              *)
(*                                                                         *)
(* Option<T> is a sequence of length 0 (None) or 1 (Some).  Credentials    *)
(* are sequences of bytes, other strings are TLA+ strings.  A formatted    *)
(* message is the sequence of its parts.                                   *)
(***************************************************************************)
EXTENDS Integers, Sequences, FiniteSets, TLC

VARIABLES
    CONNECTION,   \* the session store: Option<ElasticsearchConnection>
    CLIENT,       \* the client provider: Option<ReqwestClient>
    clientInit,   \* whether the Lazy of CLIENT has run its initializer
    connLock,     \* the Mutex of CONNECTION: None, or Some(task holding the guard)
    clientLock,   \* the Mutex of CLIENT: None, or Some(task holding the guard)
    task,         \* per task: the handler it runs, where it is, and its locals
    calls,        \* the number of handler invocations started so far
    verified,     \* history: the descriptors whose health check connect has passed
    stale         \* history: the connect calls in flight that began before the
                  \* latest disconnect returned

vars == <<CONNECTION, CLIENT, clientInit, connLock, clientLock, task, calls, verified, stale>>

\* Number of handler invocations that can be in flight at once.
NumProcs == 2
\* Number of handler invocations started over a whole run.
MaxCalls == 3

Procs == 1..NumProcs

None == <<>>
Some(x) == <<x>>
unwrap_or(o, d) == IF o = None THEN d ELSE o[1]

\* A Mutex is None when free and Some(p) while task p holds its guard.
Unlocked == None

----------------------------------------------------------------------------
(* Bytes and header values *)

\* http::header::value::is_valid, the byte test of HeaderValue::try_from_generic,
\* which both HeaderValue::from_str and HeaderValue::try_from(String) run: a
\* control character other than tab is refused, a byte above 127 is accepted
is_valid(b) == (b >= 32 /\ b # 127) \/ b = 9

HeaderValue_from_str(s) ==
    IF \A i \in 1..Len(s) : is_valid(s[i])
    THEN [ok |-> TRUE, val |-> s]
    ELSE [ok |-> FALSE, err |-> "failed to parse header value"]

HeaderValue_try_from(s) ==
    IF \A i \in 1..Len(s) : is_valid(s[i])
    THEN [ok |-> TRUE, val |-> s]
    ELSE [ok |-> FALSE, err |-> "builder error"]

\* The standard base64 alphabet, as ASCII codes.
B64Char(i) ==
    IF i < 26 THEN 65 + i
    ELSE IF i < 52 THEN 97 + (i - 26)
    ELSE IF i < 62 THEN 48 + (i - 52)
    ELSE IF i = 62 THEN 43 ELSE 47

Pad == <<61>>                                        \* "="

RECURSIVE STANDARD_encode(_)
STANDARD_encode(bs) ==
    IF Len(bs) = 0 THEN <<>>
    ELSE IF Len(bs) = 1 THEN
        LET n == bs[1] * 65536
        IN  <<B64Char(n \div 262144), B64Char((n \div 4096) % 64)>> \o Pad \o Pad
    ELSE IF Len(bs) = 2 THEN
        LET n == bs[1] * 65536 + bs[2] * 256
        IN  <<B64Char(n \div 262144), B64Char((n \div 4096) % 64),
              B64Char((n \div 64) % 64)>> \o Pad
    ELSE
        LET n == bs[1] * 65536 + bs[2] * 256 + bs[3]
        IN  <<B64Char(n \div 262144), B64Char((n \div 4096) % 64),
              B64Char((n \div 64) % 64), B64Char(n % 64)>>
            \o STANDARD_encode(SubSeq(bs, 4, Len(bs)))

BasicPrefix == <<66, 97, 115, 105, 99, 32>>          \* "Basic "
ApiKeyPrefix == <<65, 112, 105, 75, 101, 121, 32>>   \* "ApiKey "
Colon == <<58>>

----------------------------------------------------------------------------
(* Connection descriptors *)

\* auth none, plain http
ConnA ==
    [id |-> "a", name |-> "local", host |-> "es-a", port |-> 9200,
     username |-> None, password |-> None, ssl |-> None,
     api_key |-> None, auth_type |-> "none"]

\* auth basic with both credentials ("u", "pw"), https
ConnB ==
    [id |-> "b", name |-> "prod", host |-> "es-b", port |-> 9243,
     username |-> Some(<<117>>), password |-> Some(<<112, 119>>), ssl |-> Some(TRUE),
     api_key |-> None, auth_type |-> "basic"]

\* auth apiKey whose key holds a non-ASCII character ("k" followed by U+00E9 in UTF-8)
ConnK ==
    [id |-> "k", name |-> "key", host |-> "es-k", port |-> 9200,
     username |-> None, password |-> None, ssl |-> Some(FALSE),
     api_key |-> Some(<<107, 195, 169>>), auth_type |-> "apiKey"]

\* auth apiKey whose key holds a newline
ConnN ==
    [id |-> "n", name |-> "newline", host |-> "es-n", port |-> 9200,
     username |-> None, password |-> None, ssl |-> None,
     api_key |-> Some(<<107, 10>>), auth_type |-> "apiKey"]

Descriptors == {ConnA, ConnB, ConnK, ConnN}

get_base_url(conn) ==
    LET protocol == IF unwrap_or(conn.ssl, FALSE) THEN "https" ELSE "http"
    IN  <<protocol, "://", conn.host, ":", conn.port>>

NoAuthorization == None

create_auth_headers_Basic(conn) ==
    IF conn.username # None /\ conn.password # None
    THEN LET auth == conn.username[1] \o Colon \o conn.password[1]
             encoded == STANDARD_encode(auth)
             hv == HeaderValue_from_str(BasicPrefix \o encoded)
         IN  IF hv.ok
             THEN [ok |-> TRUE, content_type |-> "application/json",
                   authorization |-> Some(hv.val)]
             ELSE [ok |-> FALSE, err |-> hv.err]
    ELSE [ok |-> TRUE, content_type |-> "application/json",
          authorization |-> NoAuthorization]

create_auth_headers_ApiKey(conn) ==
    IF conn.api_key # None
    THEN LET hv == HeaderValue_from_str(ApiKeyPrefix \o conn.api_key[1])
         IN  IF hv.ok
             THEN [ok |-> TRUE, content_type |-> "application/json",
                   authorization |-> Some(hv.val)]
             ELSE [ok |-> FALSE, err |-> hv.err]
    ELSE [ok |-> TRUE, content_type |-> "application/json",
          authorization |-> NoAuthorization]

\* create_auth_headers that takes every tag other than "basic" for an api key
create_auth_headers_AnyTag(conn) ==
    IF conn.auth_type = "basic" THEN create_auth_headers_Basic(conn)
    ELSE create_auth_headers_ApiKey(conn)

create_auth_headers(conn) ==
    IF conn.auth_type = "basic" THEN create_auth_headers_Basic(conn)
    ELSE IF conn.auth_type = "apiKey" THEN create_auth_headers_ApiKey(conn)
    ELSE [ok |-> TRUE, content_type |-> "application/json",
          authorization |-> NoAuthorization]

----------------------------------------------------------------------------
(* serde_json::Value *)

JNull == [t |-> "null"]
JBool(b) == [t |-> "bool", b |-> b]
JNum(n) == [t |-> "num", n |-> n]
JStr(s) == [t |-> "str", s |-> s]
JArr(a) == [t |-> "arr", a |-> a]
JObj(o) == [t |-> "obj", o |-> o]

\* value[key]: Null when value is no object or has no such key
Index(v, k) == IF v.t = "obj" /\ k \in DOMAIN v.o THEN v.o[k] ELSE JNull

as_str(v) == IF v.t = "str" THEN Some(v.s) ELSE None
as_u64(v) == IF v.t = "num" /\ v.n >= 0 THEN Some(v.n) ELSE None
as_bool(v) == IF v.t = "bool" THEN Some(v.b) ELSE None
as_array(v) == IF v.t = "arr" THEN Some(v.a) ELSE None
is_object(v) == v.t = "obj"

\* `x as u32` of a u64 keeps the low 32 bits.  The numbers of the model's
\* responses stay below 2^31, where the cast changes nothing.
as_u32(n) == n

\* The decimal digits of u64::MAX (18446744073709551615) and u32::MAX (4294967295).
U64MaxDigits == <<1, 8, 4, 4, 6, 7, 4, 4, 0, 7, 3, 7, 0, 9, 5, 5, 1, 6, 1, 5>>
U32MaxDigits == <<4, 2, 9, 4, 9, 6, 7, 2, 9, 5>>

RECURSIVE strip_zeros(_)
strip_zeros(ds) == IF ds # <<>> /\ ds[1] = 0 THEN strip_zeros(Tail(ds)) ELSE ds

RECURSIVE digits_leq(_, _)
digits_leq(a, b) ==
    IF a = <<>> THEN TRUE
    ELSE IF a[1] # b[1] THEN a[1] < b[1]
    ELSE digits_leq(Tail(a), Tail(b))

fits(ds, max) ==
    LET d == strip_zeros(ds)
    IN  Len(d) < Len(max) \/ (Len(d) = Len(max) /\ digits_leq(d, max))

RECURSIVE digits_value(_, _)
digits_value(ds, acc) ==
    IF ds = <<>> THEN acc ELSE digits_value(Tail(ds), acc * 10 + ds[1])

\* str::parse for an unsigned integer type with the given maximum: an optional
\* "+", then one or more decimal digits, and no overflow.  bs holds the bytes.
parse_unsigned(bs, max) ==
    LET body == IF bs # <<>> /\ bs[1] = 43 THEN Tail(bs) ELSE bs
    IN  IF body = <<>> \/ \E i \in 1..Len(body) : body[i] < 48 \/ body[i] > 57
        THEN None
        ELSE LET ds == [i \in 1..Len(body) |-> body[i] - 48]
             IN  IF fits(ds, max) THEN Some(digits_value(ds, 0)) ELSE None

parse_u64(bs) == parse_unsigned(bs, U64MaxDigits)
parse_u32(bs) == parse_unsigned(bs, U32MaxDigits)

----------------------------------------------------------------------------
(* The cluster's responses: status codes and body texts *)

is_success(status) == status >= 200 /\ status < 300

\* Display of a StatusCode
StatusText(status) ==
    CASE status = 200 -> "200 OK"
      [] status = 503 -> "503 Service Unavailable"

StatusCodes == {200, 503}

HealthFull == "{\"cluster_name\":\"es-cluster\",\"status\":\"green\",\"number_of_nodes\":3,\"active_shards\":10}"
HealthNoName == "{\"status\":\"yellow\"}"
HealthEmpty == "{}"
NotJson == "<html>"
ErrorBody == "{\"error\":\"security_exception\"}"

SearchObjectTotal == "{\"hits\":{\"total\":{\"value\":5},\"hits\":[{\"_id\":\"1\"},{\"_id\":\"2\"}]},\"took\":12,\"timed_out\":false,\"_shards\":{\"total\":1,\"successful\":1,\"failed\":0,\"skipped\":0}}"
SearchScalarTotal == "{\"hits\":{\"total\":5,\"hits\":[]}}"
SearchNoHits == "{\"took\":3}"
SearchHitsNull == "{\"hits\":{\"total\":1,\"hits\":null}}"

IndicesOne == "[{\"index\":\"logs\",\"health\":\"green\",\"status\":\"open\",\"docs.count\":\"1000\",\"pri\":\"3\"}]"
IndicesTwo == "[{\"index\":\"b\",\"docs.count\":\"12x\",\"rep\":\"1\",\"store.size\":\"5kb\"},{\"index\":\"a\",\"docs.count\":\"7\"}]"
IndicesNull == "[{\"index\":\"logs\",\"docs.count\":null}]"

QueryMatchAll == "{\"query\":{\"match_all\":{}}}"
QueryNotJson == "not json"

\* serde_json::from_str on the texts above
from_str(text) ==
    CASE text = HealthFull ->
           [ok |-> TRUE, val |-> JObj([cluster_name |-> JStr("es-cluster"),
                                       status |-> JStr("green"),
                                       number_of_nodes |-> JNum(3),
                                       active_shards |-> JNum(10)])]
      [] text = HealthNoName ->
           [ok |-> TRUE, val |-> JObj([status |-> JStr("yellow")])]
      [] text = HealthEmpty ->
           [ok |-> TRUE, val |-> JObj(<<>>)]
      [] text = ErrorBody ->
           [ok |-> TRUE, val |-> JObj([error |-> JStr("security_exception")])]
      [] text = SearchObjectTotal ->
           [ok |-> TRUE, val |-> JObj([
               hits |-> JObj([total |-> JObj([value |-> JNum(5)]),
                              hits |-> JArr(<<JObj([_id |-> JStr("1")]),
                                              JObj([_id |-> JStr("2")])>>)]),
               took |-> JNum(12),
               timed_out |-> JBool(FALSE),
               _shards |-> JObj([total |-> JNum(1), successful |-> JNum(1),
                                 failed |-> JNum(0), skipped |-> JNum(0)])])]
      [] text = SearchScalarTotal ->
           [ok |-> TRUE, val |-> JObj([hits |-> JObj([total |-> JNum(5),
                                                      hits |-> JArr(<<>>)])])]
      [] text = SearchNoHits ->
           [ok |-> TRUE, val |-> JObj([took |-> JNum(3)])]
      [] text = SearchHitsNull ->
           [ok |-> TRUE, val |-> JObj([hits |-> JObj([total |-> JNum(1),
                                                      hits |-> JNull])])]
      [] text = IndicesOne ->
           [ok |-> TRUE, val |-> JArr(<<
               JObj(("docs.count" :> JStr("1000")) @@
                    [index |-> JStr("logs"), health |-> JStr("green"),
                     status |-> JStr("open"), pri |-> JStr("3")])>>)]
      [] text = IndicesTwo ->
           [ok |-> TRUE, val |-> JArr(<<
               JObj(("docs.count" :> JStr("12x")) @@ ("store.size" :> JStr("5kb")) @@
                    [index |-> JStr("b"), rep |-> JStr("1")]),
               JObj(("docs.count" :> JStr("7")) @@ [index |-> JStr("a")])>>)]
      [] text = IndicesNull ->
           [ok |-> TRUE, val |-> JArr(<<
               JObj(("docs.count" :> JNull) @@ [index |-> JStr("logs")])>>)]
      [] text = QueryMatchAll ->
           [ok |-> TRUE, val |-> JObj([query |-> JObj([match_all |-> JObj(<<>>)])])]
      [] text = NotJson ->
           [ok |-> FALSE, err |-> "expected value at line 1 column 1"]
      [] text = QueryNotJson ->
           [ok |-> FALSE, err |-> "expected ident at line 1 column 2"]

\* str::as_bytes on the strings the count fields of the responses hold
as_bytes(str) ==
    CASE str = "1000" -> <<49, 48, 48, 48>>
      [] str = "3" -> <<51>>
      [] str = "12x" -> <<49, 50, 120>>
      [] str = "1" -> <<49>>
      [] str = "7" -> <<55>>

\* What the network can answer to a health request (connect, cluster health),
\* to a search and to an index listing.  A body of None is a body whose read fails.
HealthBodies == {HealthFull, HealthNoName, HealthEmpty, NotJson}
SearchBodies == {SearchObjectTotal, SearchScalarTotal, SearchNoHits, SearchHitsNull, NotJson}
IndicesBodies == {IndicesOne, IndicesTwo, IndicesNull}

Responses(bodies) ==
    {[status |-> 200, body |-> b] : b \in {Some(t) : t \in bodies} \cup {None}}
    \cup {[status |-> 503, body |-> b] : b \in {Some(ErrorBody), None}}

\* Response::json: read the body, then parse it
Response_json(resp) ==
    IF resp.body = None
    THEN [ok |-> FALSE, err |-> "error decoding response body"]
    ELSE LET parsed == from_str(resp.body[1])
         IN  IF parsed.ok THEN parsed
             ELSE [ok |-> FALSE, err |-> "error decoding response body"]

\* Response::text: read the body
Response_text(resp) ==
    IF resp.body = None
    THEN [ok |-> FALSE, err |-> "error decoding response body"]
    ELSE [ok |-> TRUE, val |-> resp.body[1]]

----------------------------------------------------------------------------
(* Results and response normalisation *)

Ok(v) == [tag |-> "Ok", val |-> v]
Err(e) == [tag |-> "Err", err |-> e]
NoResult == [tag |-> "none"]

\* connect_result with the defaults of the cluster health handler ("")
connect_result_EmptyDefault(connection, health_data) ==
    [connected |-> TRUE,
     cluster_name |-> unwrap_or(as_str(Index(health_data, "cluster_name")), ""),
     status |-> unwrap_or(as_str(Index(health_data, "status")), ""),
     connection |-> connection,
     health |-> health_data]

\* The value connect returns on success (the json! of the handler)
connect_result(connection, health_data) ==
    [connected |-> TRUE,
     cluster_name |-> unwrap_or(as_str(Index(health_data, "cluster_name")), "unknown"),
     status |-> unwrap_or(as_str(Index(health_data, "status")), "unknown"),
     connection |-> connection,
     health |-> health_data]

\* The message of connect's transport failure
connect_error(e) ==
    <<"Error connecting to Elasticsearch: ", e,
      ". This may be due to an invalid SSL certificate, network issue, or incorrect connection details.">>

\* connect_server_error that reports the status alone, as the other handlers do
connect_server_error_StatusOnly(resp) ==
    <<"Elasticsearch server returned an error - Status: ", StatusText(resp.status)>>

\* connect with a non-success status: the status and the body text, or a
\* placeholder when the body cannot be read
connect_server_error(resp) ==
    LET text == Response_text(resp)
        error_text == IF text.ok THEN text.val ELSE "Unable to read error response"
    IN  <<"Elasticsearch server returned an error - Status: ", StatusText(resp.status),
          ", Response: ", error_text>>

\* Response::json::<Vec<HashMap<String, String>>>: a sequence of objects whose
\* values are all strings, anything else is a decoding error
deserialize_rows(resp) ==
    LET body == Response_json(resp)
    IN  IF ~body.ok THEN body
        ELSE IF body.val.t = "arr"
                /\ \A i \in 1..Len(body.val.a) :
                      /\ body.val.a[i].t = "obj"
                      /\ \A k \in DOMAIN body.val.a[i].o : body.val.a[i].o[k].t = "str"
        THEN [ok |-> TRUE,
              val |-> [i \in 1..Len(body.val.a) |->
                         [k \in DOMAIN body.val.a[i].o |-> body.val.a[i].o[k].s]]]
        ELSE [ok |-> FALSE, err |-> "error decoding response body"]

get(map, k) == IF k \in DOMAIN map THEN Some(map[k]) ELSE None

string_field(row, k) == unwrap_or(get(row, k), "")
u64_field(row, k) ==
    IF get(row, k) = None THEN 0 ELSE unwrap_or(parse_u64(as_bytes(get(row, k)[1])), 0)
u32_field(row, k) ==
    IF get(row, k) = None THEN 0 ELSE unwrap_or(parse_u32(as_bytes(get(row, k)[1])), 0)

ElasticsearchIndex(row) ==
    [name |-> string_field(row, "index"),
     health |-> string_field(row, "health"),
     status |-> string_field(row, "status"),
     docs_count |-> u64_field(row, "docs.count"),
     docs_deleted |-> u64_field(row, "docs.deleted"),
     primary_shards |-> u32_field(row, "pri"),
     replica_shards |-> u32_field(row, "rep"),
     storage_size |-> string_field(row, "store.size")]

\* list indices after a success status
indices_result(resp) ==
    LET indices_data == deserialize_rows(resp)
    IN  IF ~indices_data.ok THEN Err(<<indices_data.err>>)
        ELSE Ok([i \in 1..Len(indices_data.val) |-> ElasticsearchIndex(indices_data.val[i])])

u64_or_0(v) == unwrap_or(as_u64(v), 0)

QueryShards(response_body) ==
    [total |-> as_u32(u64_or_0(Index(Index(response_body, "_shards"), "total"))),
     successful |-> as_u32(u64_or_0(Index(Index(response_body, "_shards"), "successful"))),
     failed |-> as_u32(u64_or_0(Index(Index(response_body, "_shards"), "failed"))),
     skipped |-> as_u32(u64_or_0(Index(Index(response_body, "_shards"), "skipped")))]

\* query_total that reads the scalar form only
query_total_ScalarOnly(response_body) ==
    u64_or_0(Index(Index(response_body, "hits"), "total"))

query_total(response_body) ==
    IF is_object(Index(Index(response_body, "hits"), "total"))
    THEN u64_or_0(Index(Index(Index(response_body, "hits"), "total"), "value"))
    ELSE u64_or_0(Index(Index(response_body, "hits"), "total"))

\* query_hits that takes a missing hits array for an empty one
query_hits_OrEmpty(response_body) ==
    Some(unwrap_or(as_array(Index(Index(response_body, "hits"), "hits")), <<>>))

\* The hits of a search response: Some(array), or None when hits.hits is no array
query_hits(response_body) == as_array(Index(Index(response_body, "hits"), "hits"))

\* The QueryResult of a parsed search response, or the failure on its hits
QueryResult(response_body) ==
    IF query_hits(response_body) = None THEN Err(<<"Invalid response format">>)
    ELSE Ok([hits |-> query_hits(response_body)[1],
             total |-> query_total(response_body),
             took |-> u64_or_0(Index(response_body, "took")),
             timed_out |-> unwrap_or(as_bool(Index(response_body, "timed_out")), FALSE),
             shards |-> QueryShards(response_body)])

\* execute query after a success status
query_result(resp) ==
    LET body == Response_json(resp)
    IN  IF ~body.ok THEN Err(<<body.err>>) ELSE QueryResult(body.val)

u32_or_0(health_data, k) == as_u32(u64_or_0(Index(health_data, k)))

ClusterHealth(health_data) ==
    [cluster_name |-> unwrap_or(as_str(Index(health_data, "cluster_name")), ""),
     status |-> unwrap_or(as_str(Index(health_data, "status")), ""),
     number_of_nodes |-> u32_or_0(health_data, "number_of_nodes"),
     number_of_data_nodes |-> u32_or_0(health_data, "number_of_data_nodes"),
     active_primary_shards |-> u32_or_0(health_data, "active_primary_shards"),
     active_shards |-> u32_or_0(health_data, "active_shards"),
     relocating_shards |-> u32_or_0(health_data, "relocating_shards"),
     initializing_shards |-> u32_or_0(health_data, "initializing_shards"),
     unassigned_shards |-> u32_or_0(health_data, "unassigned_shards"),
     pending_tasks |-> u32_or_0(health_data, "number_of_pending_tasks")]

\* cluster health after a success status
health_result(resp) ==
    LET body == Response_json(resp)
    IN  IF ~body.ok THEN Err(<<body.err>>) ELSE Ok(ClusterHealth(body.val))

----------------------------------------------------------------------------
(* Requests *)

\* The request connect builds: no header map, authentication through the
\* request builder (basic_auth, or header() whose failure send() reports).
connect_request(connection) ==
    LET url == get_base_url(connection) \o <<"/_cluster/health">>
        plain == [method |-> "GET", url |-> url, content_type |-> None,
                  authorization |-> None, json |-> None]
    IN  IF connection.auth_type = "basic"
        THEN IF connection.username # None /\ connection.password # None
             THEN [ok |-> TRUE,
                   val |-> [plain EXCEPT !.authorization =
                              Some(BasicPrefix \o STANDARD_encode(
                                  connection.username[1] \o Colon \o connection.password[1]))]]
             ELSE [ok |-> TRUE, val |-> plain]
        ELSE IF connection.auth_type = "apiKey"
        THEN IF connection.api_key # None
             THEN LET hv == HeaderValue_try_from(ApiKeyPrefix \o connection.api_key[1])
                  IN  IF hv.ok
                      THEN [ok |-> TRUE, val |-> [plain EXCEPT !.authorization = Some(hv.val)]]
                      ELSE [ok |-> FALSE, err |-> hv.err]
             ELSE [ok |-> TRUE, val |-> plain]
        ELSE [ok |-> TRUE, val |-> plain]

\* The request of a handler that reads the session: url and headers from conn
session_request(method, url, headers, json) ==
    [method |-> method, url |-> url, content_type |-> Some(headers.content_type),
     authorization |-> headers.authorization, json |-> json]

----------------------------------------------------------------------------
(* State *)

Indices == {"logs"}
Queries == {QueryMatchAll, QueryNotJson}

ReadOps == {"indices", "query", "health"}

IdleTask ==
    [pc |-> "idle", op |-> "none", connection |-> None, index |-> None, query |-> None,
     conn |-> None, client |-> None, request |-> None, nreq |-> 0, resp |-> None,
     health_data |-> None, result |-> NoResult]

Init ==
    /\ CONNECTION = None
    /\ CLIENT = None
    /\ clientInit = FALSE
    /\ connLock = Unlocked
    /\ clientLock = Unlocked
    /\ task = [p \in Procs |-> IdleTask]
    /\ calls = 0
    /\ verified = {}
    /\ stale = {}

\* CLIENT_force that leaves the provider empty when the builder fails
CLIENT_force_Empty(built) ==
    IF clientInit
    THEN UNCHANGED <<CLIENT, clientInit>>
    ELSE /\ clientInit' = TRUE
         /\ CLIENT' = IF built THEN Some("configured") ELSE None

\* Lazy::force of CLIENT: the first use builds the client, the configured one
\* or, when the builder fails, the default one
CLIENT_force(built) ==
    IF clientInit
    THEN UNCHANGED <<CLIENT, clientInit>>
    ELSE /\ clientInit' = TRUE
         /\ CLIENT' = IF built THEN Some("configured") ELSE Some("default")

Return(t, result) == [t EXCEPT !.pc = "done", !.result = result]

\* The tasks that run the handler op and have not returned
InFlight(op) == {p \in Procs : task[p].op = op /\ task[p].pc # "done"}

----------------------------------------------------------------------------
(* The caller invokes a handler *)

Call_connect(p) ==
    /\ task[p].pc = "idle" /\ calls < MaxCalls
    /\ \E d \in Descriptors :
          task' = [task EXCEPT ![p] = [IdleTask EXCEPT !.pc = "c_lock_client",
                                         !.op = "connect", !.connection = Some(d)]]
    /\ calls' = calls + 1
    /\ UNCHANGED <<CONNECTION, CLIENT, clientInit, connLock, clientLock, verified, stale>>

Call_disconnect(p) ==
    /\ task[p].pc = "idle" /\ calls < MaxCalls
    /\ task' = [task EXCEPT ![p] = [IdleTask EXCEPT !.pc = "d_lock", !.op = "disconnect"]]
    /\ calls' = calls + 1
    /\ UNCHANGED <<CONNECTION, CLIENT, clientInit, connLock, clientLock, verified, stale>>

Call_indices(p) ==
    /\ task[p].pc = "idle" /\ calls < MaxCalls
    /\ task' = [task EXCEPT ![p] = [IdleTask EXCEPT !.pc = "r_lock_connection",
                                                     !.op = "indices"]]
    /\ calls' = calls + 1
    /\ UNCHANGED <<CONNECTION, CLIENT, clientInit, connLock, clientLock, verified, stale>>

Call_query(p) ==
    /\ task[p].pc = "idle" /\ calls < MaxCalls
    /\ \E index \in Indices, query \in Queries :
          task' = [task EXCEPT ![p] = [IdleTask EXCEPT !.pc = "r_lock_connection",
                                         !.op = "query", !.index = Some(index),
                                         !.query = Some(query)]]
    /\ calls' = calls + 1
    /\ UNCHANGED <<CONNECTION, CLIENT, clientInit, connLock, clientLock, verified, stale>>

Call_health(p) ==
    /\ task[p].pc = "idle" /\ calls < MaxCalls
    /\ task' = [task EXCEPT ![p] = [IdleTask EXCEPT !.pc = "r_lock_connection",
                                                     !.op = "health"]]
    /\ calls' = calls + 1
    /\ UNCHANGED <<CONNECTION, CLIENT, clientInit, connLock, clientLock, verified, stale>>

\* The caller takes the result; the task can run another handler
Finish(p) ==
    /\ task[p].pc = "done"
    /\ task' = [task EXCEPT ![p] = IdleTask]
    /\ stale' = stale \ {p}
    /\ UNCHANGED <<CONNECTION, CLIENT, clientInit, connLock, clientLock, calls, verified>>

----------------------------------------------------------------------------
(* connect_to_elasticsearch *)

\* CLIENT.lock()
connect_to_elasticsearch_LockClient(p) ==
    /\ task[p].pc = "c_lock_client"
    /\ clientLock = Unlocked
    /\ clientLock' = Some(p)
    /\ \E built \in BOOLEAN : CLIENT_force(built)
    /\ task' = [task EXCEPT ![p].pc = "c_client"]
    /\ UNCHANGED <<CONNECTION, connLock, calls, verified, stale>>

\* connect_to_elasticsearch_Client whose client guard lives to the end of the
\* handler instead of the end of the block
connect_to_elasticsearch_Client_KeepsGuard(p) ==
    /\ task[p].pc = "c_client"
    /\ task' = [task EXCEPT ![p] =
                  IF CLIENT = None
                  THEN Return(@, Err(<<"HTTP client not available">>))
                  ELSE [@ EXCEPT !.pc = "c_send", !.client = CLIENT]]
    /\ clientLock' = IF CLIENT = None THEN Unlocked ELSE clientLock
    /\ UNCHANGED <<CONNECTION, CLIENT, clientInit, connLock, calls, verified, stale>>

\* client_guard.as_ref().ok_or(..)?.clone(), and the guard is dropped
connect_to_elasticsearch_Client(p) ==
    /\ task[p].pc = "c_client"
    /\ task' = [task EXCEPT ![p] =
                  IF CLIENT = None
                  THEN Return(@, Err(<<"HTTP client not available">>))
                  ELSE [@ EXCEPT !.pc = "c_send", !.client = CLIENT]]
    /\ clientLock' = Unlocked
    /\ UNCHANGED <<CONNECTION, CLIENT, clientInit, connLock, calls, verified, stale>>

\* connect_to_elasticsearch_Send with the descriptor saved before it is verified
connect_to_elasticsearch_Send_SavesFirst(p) ==
    /\ task[p].pc = "c_send"
    /\ LET request == connect_request(task[p].connection[1])
       IN  task' = [task EXCEPT ![p] =
                      IF request.ok
                      THEN [@ EXCEPT !.pc = "c_await_response",
                                     !.request = Some(request.val), !.nreq = @ + 1]
                      ELSE Return(@, Err(connect_error(request.err)))]
    /\ CONNECTION' = Some(task[p].connection[1])
    /\ UNCHANGED <<CLIENT, clientInit, connLock, clientLock, calls, verified, stale>>

\* The request is built and send() is called: a builder error comes back
\* without a request, otherwise the request goes out and the task awaits
connect_to_elasticsearch_Send(p) ==
    /\ task[p].pc = "c_send"
    /\ LET request == connect_request(task[p].connection[1])
       IN  task' = [task EXCEPT ![p] =
                      IF request.ok
                      THEN [@ EXCEPT !.pc = "c_await_response",
                                     !.request = Some(request.val), !.nreq = @ + 1]
                      ELSE Return(@, Err(connect_error(request.err)))]
    /\ UNCHANGED <<CONNECTION, CLIENT, clientInit, connLock, clientLock, calls, verified, stale>>

\* request.send().await: a transport failure or a response
connect_to_elasticsearch_Response(p) ==
    /\ task[p].pc = "c_await_response"
    /\ \/ task' = [task EXCEPT ![p] = Return(@, Err(connect_error("error sending request")))]
       \/ \E r \in Responses(HealthBodies) :
             task' = [task EXCEPT ![p] = [@ EXCEPT !.pc = "c_await_body", !.resp = Some(r)]]
    /\ UNCHANGED <<CONNECTION, CLIENT, clientInit, connLock, clientLock, calls, verified, stale>>

\* response.json().await on a success status, response.text().await otherwise
connect_to_elasticsearch_Body(p) ==
    /\ task[p].pc = "c_await_body"
    /\ LET resp == task[p].resp[1]
           health_data == Response_json(resp)
       IN  IF is_success(resp.status)
           THEN IF health_data.ok
                THEN /\ task' = [task EXCEPT ![p] =
                                   [@ EXCEPT !.pc = "c_lock_connection",
                                             !.health_data = Some(health_data.val)]]
                     /\ verified' = verified \cup {task[p].connection[1]}
                ELSE /\ task' = [task EXCEPT ![p] = Return(@, Err(
                            <<"Connected to Elasticsearch but couldn't parse health data: ",
                              health_data.err>>))]
                     /\ UNCHANGED verified
           ELSE /\ task' = [task EXCEPT ![p] = Return(@, Err(connect_server_error(resp)))]
                /\ UNCHANGED verified
    /\ UNCHANGED <<CONNECTION, CLIENT, clientInit, connLock, clientLock, calls, stale>>

\* connect_to_elasticsearch_LockConnection that does not wait for the guard
connect_to_elasticsearch_LockConnection_NoWait(p) ==
    /\ task[p].pc = "c_lock_connection"
    /\ connLock' = Some(p)
    /\ task' = [task EXCEPT ![p].pc = "c_save"]
    /\ UNCHANGED <<CONNECTION, CLIENT, clientInit, clientLock, calls, verified, stale>>

\* CONNECTION.lock()
connect_to_elasticsearch_LockConnection(p) ==
    /\ task[p].pc = "c_lock_connection"
    /\ connLock = Unlocked
    /\ connLock' = Some(p)
    /\ task' = [task EXCEPT ![p].pc = "c_save"]
    /\ UNCHANGED <<CONNECTION, CLIENT, clientInit, clientLock, calls, verified, stale>>

\* *conn = Some(connection.clone()), the result, and the guard is dropped
connect_to_elasticsearch_Save(p) ==
    /\ task[p].pc = "c_save"
    /\ CONNECTION' = Some(task[p].connection[1])
    /\ task' = [task EXCEPT ![p] = Return(@, Ok(connect_result(task[p].connection[1],
                                                              task[p].health_data[1])))]
    /\ connLock' = Unlocked
    /\ UNCHANGED <<CLIENT, clientInit, clientLock, calls, verified, stale>>

----------------------------------------------------------------------------
(* disconnect_from_elasticsearch *)

\* CONNECTION.lock()
disconnect_from_elasticsearch_Lock(p) ==
    /\ task[p].pc = "d_lock"
    /\ connLock = Unlocked
    /\ connLock' = Some(p)
    /\ task' = [task EXCEPT ![p].pc = "d_clear"]
    /\ UNCHANGED <<CONNECTION, CLIENT, clientInit, clientLock, calls, verified, stale>>

\* disconnect_from_elasticsearch_Clear that refuses an empty session
disconnect_from_elasticsearch_Clear_Strict(p) ==
    /\ task[p].pc = "d_clear"
    /\ CONNECTION' = None
    /\ task' = [task EXCEPT ![p] =
                  IF CONNECTION = None
                  THEN Return(@, Err(<<"Not connected to Elasticsearch">>))
                  ELSE Return(@, Ok(TRUE))]
    /\ connLock' = Unlocked
    /\ stale' = InFlight("connect")
    /\ UNCHANGED <<CLIENT, clientInit, clientLock, calls, verified>>

\* *conn = None; Ok(true), and the guard is dropped
disconnect_from_elasticsearch_Clear(p) ==
    /\ task[p].pc = "d_clear"
    /\ CONNECTION' = None
    /\ task' = [task EXCEPT ![p] = Return(@, Ok(TRUE))]
    /\ connLock' = Unlocked
    /\ stale' = InFlight("connect")
    /\ UNCHANGED <<CLIENT, clientInit, clientLock, calls, verified>>

----------------------------------------------------------------------------
(* The block that opens get_elasticsearch_indices, execute_elasticsearch_query
   and get_elasticsearch_cluster_health: both guards, then both reads *)

\* let conn_guard = CONNECTION.lock();
session_LockConnection(p) ==
    /\ task[p].pc = "r_lock_connection"
    /\ connLock = Unlocked
    /\ connLock' = Some(p)
    /\ task' = [task EXCEPT ![p].pc = "r_lock_client"]
    /\ UNCHANGED <<CONNECTION, CLIENT, clientInit, clientLock, calls, verified, stale>>

\* let client_guard = CLIENT.lock();
session_LockClient(p) ==
    /\ task[p].pc = "r_lock_client"
    /\ clientLock = Unlocked
    /\ clientLock' = Some(p)
    /\ \E built \in BOOLEAN : CLIENT_force(built)
    /\ task' = [task EXCEPT ![p].pc = "r_read"]
    /\ UNCHANGED <<CONNECTION, connLock, calls, verified, stale>>

\* session_Read that keeps the session guard alive past the block
session_Read_KeepsGuard(p) ==
    /\ task[p].pc = "r_read"
    /\ task' = [task EXCEPT ![p] =
                  IF CONNECTION = None
                  THEN Return(@, Err(<<"Not connected to Elasticsearch">>))
                  ELSE IF CLIENT = None
                  THEN Return(@, Err(<<"HTTP client not available">>))
                  ELSE [@ EXCEPT !.pc = "r_send", !.conn = CONNECTION, !.client = CLIENT]]
    /\ connLock' = IF CONNECTION = None THEN Unlocked ELSE connLock
    /\ clientLock' = Unlocked
    /\ UNCHANGED <<CONNECTION, CLIENT, clientInit, calls, verified, stale>>

\* session_Read that goes on with the descriptor of a local cluster when the
\* session store is empty
session_Read_FallsBack(p) ==
    /\ task[p].pc = "r_read"
    /\ task' = [task EXCEPT ![p] =
                  IF CLIENT = None
                  THEN Return(@, Err(<<"HTTP client not available">>))
                  ELSE [@ EXCEPT !.pc = "r_send",
                                 !.conn = IF CONNECTION = None THEN Some(ConnA) ELSE CONNECTION,
                                 !.client = CLIENT]]
    /\ connLock' = Unlocked
    /\ clientLock' = Unlocked
    /\ UNCHANGED <<CONNECTION, CLIENT, clientInit, calls, verified, stale>>

\* conn_guard.as_ref().ok_or(..)?.clone(); client_guard.as_ref().ok_or(..)?.clone();
\* both guards are dropped, at the end of the block or by the early return
session_Read(p) ==
    /\ task[p].pc = "r_read"
    /\ task' = [task EXCEPT ![p] =
                  IF CONNECTION = None
                  THEN Return(@, Err(<<"Not connected to Elasticsearch">>))
                  ELSE IF CLIENT = None
                  THEN Return(@, Err(<<"HTTP client not available">>))
                  ELSE [@ EXCEPT !.pc = "r_send", !.conn = CONNECTION, !.client = CLIENT]]
    /\ connLock' = Unlocked
    /\ clientLock' = Unlocked
    /\ UNCHANGED <<CONNECTION, CLIENT, clientInit, calls, verified, stale>>

\* A request goes out and the task awaits the response
Sent(t, request) ==
    [t EXCEPT !.pc = "r_await_response", !.request = Some(request), !.nreq = @ + 1]

\* Received that sends the request again when the status is not a success
Received_Retries(t, r, prefix) ==
    IF is_success(r.status)
    THEN [t EXCEPT !.pc = "r_await_body", !.resp = Some(r)]
    ELSE Sent([t EXCEPT !.resp = Some(r)], t.request[1])

\* send().await.map_err(..)?, then the status check
Received(t, r, prefix) ==
    IF is_success(r.status)
    THEN [t EXCEPT !.pc = "r_await_body", !.resp = Some(r)]
    ELSE Return([t EXCEPT !.resp = Some(r)], Err(<<prefix, StatusText(r.status)>>))

----------------------------------------------------------------------------
(* get_elasticsearch_indices *)

\* get_elasticsearch_indices_Send that reads the session store again for the
\* url and the headers of its request
get_elasticsearch_indices_Send_Rereads(p) ==
    /\ task[p].pc = "r_send" /\ task[p].op = "indices"
    /\ IF CONNECTION = None
       THEN task' = [task EXCEPT ![p] = Return(@, Err(<<"Not connected to Elasticsearch">>))]
       ELSE LET conn == CONNECTION[1]
                url == get_base_url(conn) \o <<"/_cat/indices?format=json&v=true">>
                headers == create_auth_headers(conn)
            IN  task' = [task EXCEPT ![p] =
                           IF ~headers.ok THEN Return(@, Err(<<headers.err>>))
                           ELSE Sent(@, session_request("GET", url, headers, None))]
    /\ UNCHANGED <<CONNECTION, CLIENT, clientInit, connLock, clientLock, calls, verified, stale>>

get_elasticsearch_indices_Send(p) ==
    /\ task[p].pc = "r_send" /\ task[p].op = "indices"
    /\ LET conn == task[p].conn[1]
           url == get_base_url(conn) \o <<"/_cat/indices?format=json&v=true">>
           headers == create_auth_headers(conn)
       IN  task' = [task EXCEPT ![p] =
                      IF ~headers.ok THEN Return(@, Err(<<headers.err>>))
                      ELSE Sent(@, session_request("GET", url, headers, None))]
    /\ UNCHANGED <<CONNECTION, CLIENT, clientInit, connLock, clientLock, calls, verified, stale>>

get_elasticsearch_indices_Response(p) ==
    /\ task[p].pc = "r_await_response" /\ task[p].op = "indices"
    /\ \/ task' = [task EXCEPT ![p] = Return(@, Err(<<"error sending request">>))]
       \/ \E r \in Responses(IndicesBodies) :
             task' = [task EXCEPT ![p] = Received(@, r, "Failed to get indices: ")]
    /\ UNCHANGED <<CONNECTION, CLIENT, clientInit, connLock, clientLock, calls, verified, stale>>

get_elasticsearch_indices_Body(p) ==
    /\ task[p].pc = "r_await_body" /\ task[p].op = "indices"
    /\ task' = [task EXCEPT ![p] = Return(@, indices_result(task[p].resp[1]))]
    /\ UNCHANGED <<CONNECTION, CLIENT, clientInit, connLock, clientLock, calls, verified, stale>>

----------------------------------------------------------------------------
(* execute_elasticsearch_query *)

\* execute_elasticsearch_query_Send that posts the query text without parsing it
execute_elasticsearch_query_Send_Unparsed(p) ==
    /\ task[p].pc = "r_send" /\ task[p].op = "query"
    /\ LET conn == task[p].conn[1]
           url == get_base_url(conn) \o <<"/", task[p].index[1], "/_search">>
           headers == create_auth_headers(conn)
       IN  task' = [task EXCEPT ![p] =
                      IF ~headers.ok THEN Return(@, Err(<<headers.err>>))
                      ELSE Sent(@, session_request("POST", url, headers,
                                                   Some(JStr(task[p].query[1]))))]
    /\ UNCHANGED <<CONNECTION, CLIENT, clientInit, connLock, clientLock, calls, verified, stale>>

execute_elasticsearch_query_Send(p) ==
    /\ task[p].pc = "r_send" /\ task[p].op = "query"
    /\ LET conn == task[p].conn[1]
           url == get_base_url(conn) \o <<"/", task[p].index[1], "/_search">>
           headers == create_auth_headers(conn)
           query_json == from_str(task[p].query[1])
       IN  task' = [task EXCEPT ![p] =
                      IF ~headers.ok THEN Return(@, Err(<<headers.err>>))
                      ELSE IF ~query_json.ok THEN Return(@, Err(<<query_json.err>>))
                      ELSE Sent(@, session_request("POST", url, headers,
                                                   Some(query_json.val)))]
    /\ UNCHANGED <<CONNECTION, CLIENT, clientInit, connLock, clientLock, calls, verified, stale>>

\* execute_elasticsearch_query_Response that drops the session when the
\* cluster rejects the request
execute_elasticsearch_query_Response_DropsSession(p) ==
    /\ task[p].pc = "r_await_response" /\ task[p].op = "query"
    /\ \/ /\ task' = [task EXCEPT ![p] = Return(@, Err(<<"error sending request">>))]
          /\ UNCHANGED CONNECTION
       \/ \E r \in Responses(SearchBodies) :
             /\ task' = [task EXCEPT ![p] = Received(@, r, "Failed to execute query: ")]
             /\ CONNECTION' = IF is_success(r.status) THEN CONNECTION ELSE None
    /\ UNCHANGED <<CLIENT, clientInit, connLock, clientLock, calls, verified, stale>>

execute_elasticsearch_query_Response(p) ==
    /\ task[p].pc = "r_await_response" /\ task[p].op = "query"
    /\ \/ task' = [task EXCEPT ![p] = Return(@, Err(<<"error sending request">>))]
       \/ \E r \in Responses(SearchBodies) :
             task' = [task EXCEPT ![p] = Received(@, r, "Failed to execute query: ")]
    /\ UNCHANGED <<CONNECTION, CLIENT, clientInit, connLock, clientLock, calls, verified, stale>>

execute_elasticsearch_query_Body(p) ==
    /\ task[p].pc = "r_await_body" /\ task[p].op = "query"
    /\ task' = [task EXCEPT ![p] = Return(@, query_result(task[p].resp[1]))]
    /\ UNCHANGED <<CONNECTION, CLIENT, clientInit, connLock, clientLock, calls, verified, stale>>

----------------------------------------------------------------------------
(* get_elasticsearch_cluster_health *)

get_elasticsearch_cluster_health_Send(p) ==
    /\ task[p].pc = "r_send" /\ task[p].op = "health"
    /\ LET conn == task[p].conn[1]
           url == get_base_url(conn) \o <<"/_cluster/health">>
           headers == create_auth_headers(conn)
       IN  task' = [task EXCEPT ![p] =
                      IF ~headers.ok THEN Return(@, Err(<<headers.err>>))
                      ELSE Sent(@, session_request("GET", url, headers, None))]
    /\ UNCHANGED <<CONNECTION, CLIENT, clientInit, connLock, clientLock, calls, verified, stale>>

get_elasticsearch_cluster_health_Response(p) ==
    /\ task[p].pc = "r_await_response" /\ task[p].op = "health"
    /\ \/ task' = [task EXCEPT ![p] = Return(@, Err(<<"error sending request">>))]
       \/ \E r \in Responses(HealthBodies) :
             task' = [task EXCEPT ![p] = Received(@, r, "Failed to get cluster health: ")]
    /\ UNCHANGED <<CONNECTION, CLIENT, clientInit, connLock, clientLock, calls, verified, stale>>

get_elasticsearch_cluster_health_Body(p) ==
    /\ task[p].pc = "r_await_body" /\ task[p].op = "health"
    /\ task' = [task EXCEPT ![p] = Return(@, health_result(task[p].resp[1]))]
    /\ UNCHANGED <<CONNECTION, CLIENT, clientInit, connLock, clientLock, calls, verified, stale>>

----------------------------------------------------------------------------
(* The handlers run as independent tasks: any enabled step of any task *)

Next ==
    \E p \in Procs :
        \/ Call_connect(p)
        \/ Call_disconnect(p)
        \/ Call_indices(p)
        \/ Call_query(p)
        \/ Call_health(p)
        \/ Finish(p)
        \/ connect_to_elasticsearch_LockClient(p)
        \/ connect_to_elasticsearch_Client(p)
        \/ connect_to_elasticsearch_Send(p)
        \/ connect_to_elasticsearch_Response(p)
        \/ connect_to_elasticsearch_Body(p)
        \/ connect_to_elasticsearch_LockConnection(p)
        \/ connect_to_elasticsearch_Save(p)
        \/ disconnect_from_elasticsearch_Lock(p)
        \/ disconnect_from_elasticsearch_Clear(p)
        \/ session_LockConnection(p)
        \/ session_LockClient(p)
        \/ session_Read(p)
        \/ get_elasticsearch_indices_Send(p)
        \/ get_elasticsearch_indices_Response(p)
        \/ get_elasticsearch_indices_Body(p)
        \/ execute_elasticsearch_query_Send(p)
        \/ execute_elasticsearch_query_Response(p)
        \/ execute_elasticsearch_query_Body(p)
        \/ get_elasticsearch_cluster_health_Send(p)
        \/ get_elasticsearch_cluster_health_Response(p)
        \/ get_elasticsearch_cluster_health_Body(p)

Spec == Init /\ [][Next]_vars

\* Mutex::lock(): the call returns once the guard is taken
Acquire(p) ==
    \/ connect_to_elasticsearch_LockClient(p)
    \/ connect_to_elasticsearch_LockConnection(p)
    \/ disconnect_from_elasticsearch_Lock(p)
    \/ session_LockConnection(p)
    \/ session_LockClient(p)

\* The code that runs under a guard, up to the drop of the guard
Release(p) ==
    \/ connect_to_elasticsearch_Client(p)
    \/ connect_to_elasticsearch_Save(p)
    \/ disconnect_from_elasticsearch_Clear(p)
    \/ session_Read(p)

\* Spec with the scheduling of the two locks.  The code under a guard is
\* synchronous, it neither awaits nor blocks, so a thread that holds a guard
\* goes on to drop it (weak fairness).  A parking_lot Mutex hands a lock that
\* is released again and again to a waiting thread (eventual fairness), so a
\* task whose lock keeps becoming free acquires it (strong fairness).  Nothing
\* is assumed of the network.
FairSpec ==
    /\ Spec
    /\ \A p \in Procs : WF_vars(Release(p)) /\ SF_vars(Acquire(p))

----------------------------------------------------------------------------
(* The pure functions of the file, each applied once to an argument drawn
   from a bounded set.  In this specification task holds the name of the
   function, its argument and, once the function has been applied, its value;
   the session store and the client provider are not touched. *)

\* The largest total a search response of Functions reports.
MaxTotal == 3

\* The object with the given <<key, value>> fields
Object(fields) ==
    JObj([k \in {f[1] : f \in fields} |-> (CHOOSE f \in fields : f[1] = k)[2]])

\* A key that is absent, or present with one of the values
Optional(key, values) == {{}} \cup {{<<key, v>>} : v \in values}

\* hits.total: absent, a scalar count, an object-wrapped count, or something
\* that is neither
TotalValues ==
    {JNum(n) : n \in 0..MaxTotal}
    \cup {Object({<<"value", JNum(n)>>}) : n \in 0..MaxTotal}
    \cup {Object({<<"relation", JStr("eq")>>}), JStr("5"), JNull}

ShardsValues ==
    {Object({<<"total", JNum(2)>>, <<"successful", JNum(2)>>,
             <<"failed", JNum(0)>>, <<"skipped", JNum(1)>>}),
     Object({<<"total", JNum(2)>>}),
     JNull}

\* Search responses whose hits.hits is an array
SearchResponses ==
    {Object({<<"hits", Object({<<"hits", JArr(<<>>)>>} \cup total)>>}
            \cup took \cup timed_out \cup shards) :
        total \in Optional("total", TotalValues),
        took \in Optional("took", {JNum(12)}),
        timed_out \in Optional("timed_out", {JBool(TRUE)}),
        shards \in Optional("_shards", ShardsValues)}

\* Descriptors of every auth variant, with each credential absent or present;
\* a user name and an api key can hold a newline, an api key a character
\* outside ASCII
BuilderDescriptors ==
    {[ConnA EXCEPT !.auth_type = auth_type, !.username = username,
                   !.password = password, !.api_key = api_key] :
        auth_type \in {"none", "basic", "apiKey", "bearer"},
        username \in {None, Some(<<117>>), Some(<<117, 10>>)},
        password \in {None, Some(<<112, 119>>)},
        api_key \in {None, Some(<<107>>), Some(<<107, 195, 169>>), Some(<<107, 10>>)}}

Applied(f, arg, val) == [f |-> f, arg |-> arg, val |-> val]

Functions_Init ==
    /\ CONNECTION = None
    /\ CLIENT = None
    /\ clientInit = FALSE
    /\ connLock = Unlocked
    /\ clientLock = Unlocked
    /\ calls = 0
    /\ verified = {}
    /\ stale = {}
    /\ task \in {Applied("QueryResult", b, None) : b \in SearchResponses}
              \cup {Applied("create_auth_headers", d, None) : d \in BuilderDescriptors}

Apply_QueryResult ==
    /\ task.f = "QueryResult" /\ task.val = None
    /\ task' = [task EXCEPT !.val = Some(QueryResult(task.arg))]
    /\ UNCHANGED <<CONNECTION, CLIENT, clientInit, connLock, clientLock, calls, verified, stale>>

Apply_create_auth_headers ==
    /\ task.f = "create_auth_headers" /\ task.val = None
    /\ task' = [task EXCEPT !.val = Some(create_auth_headers(task.arg))]
    /\ UNCHANGED <<CONNECTION, CLIENT, clientInit, connLock, clientLock, calls, verified, stale>>

Functions_Next ==
    \/ Apply_QueryResult
    \/ Apply_create_auth_headers

Functions == Functions_Init /\ [][Functions_Next]_vars

----------------------------------------------------------------------------
(* Properties *)

Stepped(p) == task'[p] # task[p]
Returns(p) == task[p].pc # "done" /\ task'[p].pc = "done"
Connecting(p) == task[p].op = "connect"
Submitted(p) == task[p].connection[1]

\* The health check of task p answered with a success status and a body that parses
Verified(t) ==
    /\ t.resp # None
    /\ is_success(t.resp[1].status)
    /\ t.resp[1].body # None
    /\ from_str(t.resp[1].body[1]).ok

\* C1: a connect call that fails, by a transport failure, a non-success status
\* or an unparsable success body, leaves the session store as it was: no step
\* of a connect call writes the store except the return of a call whose health
\* check returned a success status and a parsable body.
C1_FailedConnectLeavesStore ==
    [][\A p \in Procs :
          (Connecting(p) /\ Stepped(p)) =>
             /\ task'[p].result.tag # "Ok" => CONNECTION' = CONNECTION
             /\ CONNECTION' # CONNECTION => Verified(task[p]) /\ task'[p].result.tag = "Ok"
             /\ (Returns(p) /\ ~Verified(task[p])) => task'[p].result.tag = "Err"]_vars

\* A connect call has failed on a non-success status while the session holds
\* another descriptor
C1_Witness ==
    \E p \in Procs :
        /\ Connecting(p) /\ task[p].pc = "done" /\ task[p].result.tag = "Err"
        /\ task[p].resp # None /\ ~is_success(task[p].resp[1].status)
        /\ CONNECTION # None /\ CONNECTION # task[p].connection

\* The cluster name and status a health body reports
Reported(body, k) ==
    IF body.t = "obj" /\ k \in DOMAIN body.o /\ body.o[k].t = "str"
    THEN body.o[k].s ELSE "unknown"

\* C2: a connect call whose health check returned a success status and a
\* parsable body succeeds, and when it returns the session store holds exactly
\* the submitted descriptor, whatever it held before; the result has
\* connected = true, echoes the descriptor, and reports the cluster name and
\* status of the health body, "unknown" when absent.
C2_SuccessfulConnectStores ==
    [][\A p \in Procs :
          (Connecting(p) /\ Returns(p) /\ Verified(task[p])) =>
             /\ task'[p].result.tag = "Ok"
             /\ CONNECTION' = Some(Submitted(p))
             /\ \A f \in DOMAIN Submitted(p) : CONNECTION'[1][f] = Submitted(p)[f]
             /\ task'[p].result.val.connected = TRUE
             /\ task'[p].result.val.connection = Submitted(p)
             /\ LET body == from_str(task[p].resp[1].body[1]).val
                IN  /\ task'[p].result.val.cluster_name = Reported(body, "cluster_name")
                    /\ task'[p].result.val.status = Reported(body, "status")
                    /\ task'[p].result.val.health = body]_vars

\* A connect call has replaced an earlier descriptor, on a health body without
\* a cluster name
C2_Witness ==
    \E p \in Procs :
        /\ Connecting(p) /\ task[p].pc = "done" /\ task[p].result.tag = "Ok"
        /\ CONNECTION = task[p].connection
        /\ task[p].result.val.cluster_name = "unknown"
        /\ task[p].result.val.status = "yellow"
        /\ verified \ {Submitted(p)} # {}

\* C3: disconnect always succeeds and leaves the session store empty, whether
\* the store held a descriptor or was empty already.
C3_DisconnectClears ==
    [][\A p \in Procs :
          (task[p].op = "disconnect" /\ Returns(p)) =>
             /\ task'[p].result = Ok(TRUE)
             /\ CONNECTION' = None]_vars

\* A disconnect has returned after a connect call had stored its descriptor
C3_Witness ==
    \E p, q \in Procs :
        /\ task[p].op = "disconnect" /\ task[p].pc = "done" /\ task[p].result.tag = "Ok"
        /\ Connecting(q) /\ task[q].pc = "done" /\ task[q].result.tag = "Ok"
        /\ CONNECTION = None

\* The places where a task holds the guard of CONNECTION
InConnectionSection(p) == task[p].pc \in {"c_save", "d_clear", "r_lock_client", "r_read"}

\* C4: the session store is always empty or one whole descriptor submitted to
\* a connect call whose verification succeeded, every snapshot a handler has
\* read from it is such a descriptor too, and at most one task at a time is
\* between taking and dropping the store's guard, where all reads, writes and
\* clears happen.
C4_StoreIsWholeDescriptor ==
    /\ CONNECTION = None \/ CONNECTION[1] \in verified
    /\ \A p \in Procs : task[p].conn = None \/ task[p].conn[1] \in verified
    /\ \A p \in Procs : InConnectionSection(p) <=> connLock = Some(p)

\* Two connect calls have verified different descriptors; one is stored, and a
\* reading handler in flight holds a snapshot of the other
C4_Witness ==
    \E p \in Procs :
        /\ task[p].op \in ReadOps /\ task[p].conn # None
        /\ CONNECTION # None /\ CONNECTION # task[p].conn

AwaitsNetwork(p) ==
    task[p].pc \in {"c_await_response", "c_await_body", "r_await_response", "r_await_body"}

\* C5: no handler holds the guard of the session store or of the client
\* provider while it awaits the network, nor when it is about to send or has
\* returned (also by the early not-connected return); connect holds the
\* session guard only after its last await.
C5_NoLockAcrossAwait ==
    \A p \in Procs :
        /\ (AwaitsNetwork(p) \/ task[p].pc \in {"c_send", "r_send", "done", "idle"})
              => (connLock # Some(p) /\ clientLock # Some(p))
        /\ (Connecting(p) /\ connLock = Some(p)) => task[p].pc = "c_save"
        /\ (Connecting(p) /\ clientLock = Some(p)) => task[p].pc = "c_client"

\* A reading handler awaits its response body while a connect call awaits its
\* response
C5_Witness ==
    \E p, q \in Procs :
        /\ task[p].pc = "r_await_body"
        /\ task[q].pc = "c_await_response"

\* C6: only connect sets the session store to a descriptor and only disconnect
\* empties it: a step of list indices, execute query or cluster health leaves
\* the store unchanged on every path, a step of connect never empties it and a
\* step of disconnect never stores a descriptor.
C6_OnlyConnectWritesOnlyDisconnectClears ==
    [][\A p \in Procs :
          Stepped(p) =>
             /\ task[p].op \in ReadOps => CONNECTION' = CONNECTION
             /\ (CONNECTION' # CONNECTION /\ CONNECTION' # None) => Connecting(p)
             /\ (CONNECTION' # CONNECTION /\ CONNECTION' = None) => task[p].op = "disconnect"]_vars

\* A query has failed on a non-success status and another on the syntax of its
\* text, and the session still holds the descriptor they read
C6_Witness ==
    \E p, q \in Procs :
        /\ task[p].op = "query" /\ task[p].pc = "done"
        /\ task[p].result = Err(<<"Failed to execute query: ", StatusText(503)>>)
        /\ task[q].op = "query" /\ task[q].pc = "done"
        /\ task[q].result = Err(<<"expected ident at line 1 column 2">>)
        /\ CONNECTION # None /\ CONNECTION = task[p].conn /\ CONNECTION = task[q].conn

NotConnectedError == Err(<<"Not connected to Elasticsearch">>)

\* C7: when list indices or cluster health reads an empty session store, the
\* call returns at once with NotConnectedError and has issued no HTTP request.
C7_NotConnectedWithoutRequest ==
    [][\A p \in Procs :
          (task[p].op \in {"indices", "health"} /\ task[p].pc = "r_read" /\ Stepped(p)
             /\ CONNECTION = None) =>
             /\ task'[p].pc = "done"
             /\ task'[p].result = NotConnectedError
             /\ task'[p].nreq = 0
             /\ task'[p].request = None]_vars

\* List indices and cluster health have both returned NotConnectedError
C7_Witness ==
    \E p, q \in Procs :
        /\ task[p].op = "indices" /\ task[p].pc = "done" /\ task[p].result = NotConnectedError
        /\ task[q].op = "health" /\ task[q].pc = "done" /\ task[q].result = NotConnectedError
        /\ task[p].nreq = 0 /\ task[q].nreq = 0

InvalidQuery(t) == t.op = "query" /\ ~from_str(t.query[1]).ok
QuerySyntaxError(t) == Err(<<from_str(t.query[1]).err>>)
EncodingError == Err(<<"failed to parse header value">>)

\* The Authorization value of the descriptor has a byte no header value can
\* hold (the base64 of basic authentication never has one)
InvalidAuthorization(conn) ==
    /\ conn.auth_type = "apiKey" /\ conn.api_key # None
    /\ \E i \in 1..Len(conn.api_key[1]) : ~is_valid(conn.api_key[1][i])

\* C8 as stated: a query text that is not valid JSON makes execute query fail
\* with QuerySyntaxError and no HTTP request, whatever the session state and
\* the credentials of the active descriptor.
C8_Original ==
    \A p \in Procs :
        (InvalidQuery(task[p]) /\ task[p].pc = "done") =>
            /\ task[p].result = QuerySyntaxError(task[p])
            /\ task[p].nreq = 0

\* C8, amended: a query text that is not valid JSON makes execute query fail
\* without any HTTP request; the failure is NotConnectedError when the session
\* store is empty, EncodingError when the Authorization value of the active
\* descriptor is no valid header value, and QuerySyntaxError otherwise: the
\* parse of the query text is the last check before the request, not the first.
C8_InvalidQueryNoRequest ==
    \A p \in Procs :
        InvalidQuery(task[p]) =>
            /\ task[p].nreq = 0 /\ task[p].request = None
            /\ task[p].pc \notin {"r_await_response", "r_await_body"}
            /\ task[p].pc = "done" =>
                  task[p].result =
                     IF task[p].conn = None THEN NotConnectedError
                     ELSE IF InvalidAuthorization(task[p].conn[1]) THEN EncodingError
                     ELSE QuerySyntaxError(task[p])

\* Three queries with a text that is not JSON can fail three ways; here one
\* has failed with QuerySyntaxError on a session, one with NotConnectedError
C8_Witness ==
    \E p, q \in Procs :
        /\ InvalidQuery(task[p]) /\ task[p].pc = "done" /\ task[p].conn # None
        /\ task[p].result = QuerySyntaxError(task[p])
        /\ InvalidQuery(task[q]) /\ task[q].pc = "done"
        /\ task[q].result = NotConnectedError

Contains(message, part) == \E i \in 1..Len(message) : message[i] = part

Rejected(t) == t.pc = "done" /\ t.resp # None /\ ~is_success(t.resp[1].status)

\* C9 as stated: in every handler that contacts the cluster, a non-success
\* status makes the call fail with an error that carries the status code and
\* the raw response body text.
C9_Original ==
    \A p \in Procs :
        (Rejected(task[p]) /\ task[p].resp[1].body # None) =>
            /\ task[p].result.tag = "Err"
            /\ Contains(task[p].result.err, StatusText(task[p].resp[1].status))
            /\ Contains(task[p].result.err, task[p].resp[1].body[1])

ServerErrorPrefix(op) ==
    CASE op = "indices" -> "Failed to get indices: "
      [] op = "query" -> "Failed to execute query: "
      [] op = "health" -> "Failed to get cluster health: "

\* C9, amended: in every handler that contacts the cluster, a non-success
\* status makes the call fail with an error that carries the status code; only
\* the error of connect also carries the raw response body text (a fixed
\* placeholder when the body cannot be read), the errors of list indices,
\* execute query and cluster health carry the status alone.
C9_ServerErrorCarriesStatus ==
    \A p \in Procs :
        Rejected(task[p]) =>
            /\ task[p].result.tag = "Err"
            /\ Contains(task[p].result.err, StatusText(task[p].resp[1].status))
            /\ Connecting(p) =>
                  Contains(task[p].result.err,
                           IF task[p].resp[1].body # None THEN task[p].resp[1].body[1]
                           ELSE "Unable to read error response")
            /\ task[p].op \in ReadOps =>
                  /\ task[p].result.err =
                        <<ServerErrorPrefix(task[p].op), StatusText(task[p].resp[1].status)>>
                  /\ task[p].resp[1].body # None =>
                        ~Contains(task[p].result.err, task[p].resp[1].body[1])

\* A connect call and a list indices call have both been answered 503 with a
\* readable body
C9_Witness ==
    \E p, q \in Procs :
        /\ Connecting(p) /\ Rejected(task[p]) /\ task[p].resp[1].body # None
        /\ task[q].op = "indices" /\ Rejected(task[q]) /\ task[q].resp[1].body # None

\* A query answered with a success status and a body that parses
Answered(t) ==
    /\ t.op = "query" /\ t.pc = "done" /\ t.resp # None
    /\ is_success(t.resp[1].status) /\ t.resp[1].body # None
    /\ from_str(t.resp[1].body[1]).ok

HasHitsArray(body) ==
    /\ body.t = "obj" /\ "hits" \in DOMAIN body.o
    /\ body.o.hits.t = "obj" /\ "hits" \in DOMAIN body.o.hits.o
    /\ body.o.hits.o.hits.t = "arr"

\* C10: a success-status search response without a hits.hits array (the key
\* missing, or not an array) makes execute query fail with ResponseParseError,
\* never return an empty hits list; with a hits.hits array, the hits of the
\* result are that array, element for element, in order.
C10_HitsArrayRequired ==
    \A p \in Procs :
        Answered(task[p]) =>
            LET body == from_str(task[p].resp[1].body[1]).val
            IN  IF HasHitsArray(body)
                THEN /\ task[p].result.tag = "Ok"
                     /\ Len(task[p].result.val.hits) = Len(body.o.hits.o.hits.a)
                     /\ \A i \in 1..Len(body.o.hits.o.hits.a) :
                           task[p].result.val.hits[i] = body.o.hits.o.hits.a[i]
                ELSE task[p].result = Err(<<"Invalid response format">>)

\* One query has failed on a response without hits, another has returned the
\* two hits of its response
C10_Witness ==
    \E p, q \in Procs :
        /\ Answered(task[p]) /\ task[p].resp[1].body = Some(SearchNoHits)
        /\ task[p].result = Err(<<"Invalid response format">>)
        /\ Answered(task[q]) /\ task[q].result.tag = "Ok"
        /\ Len(task[q].result.val.hits) = 2

HasField(v, k) == v.t = "obj" /\ k \in DOMAIN v.o

\* QueryResult has been applied to a search response
Normalised == task.f = "QueryResult" /\ task.val # None

\* C11: for every n >= 0, a search response with hits.total = n (scalar form)
\* and one with hits.total = {"value": n} (object form) normalise to a query
\* result with total = n; took, timed_out and each of the four shard counts
\* are 0, false and 0 when the response does not have them, and the values of
\* the response when it has.
C11_TotalFormsAgree ==
    Normalised =>
        LET body == task.arg
            result == task.val[1]
        IN  /\ result.tag = "Ok"
            /\ \A n \in 0..MaxTotal :
                  (HasField(body.o.hits, "total")
                   /\ body.o.hits.o.total \in {JNum(n), Object({<<"value", JNum(n)>>})})
                      => result.val.total = n
            /\ result.val.took = IF HasField(body, "took") THEN 12 ELSE 0
            /\ result.val.timed_out = HasField(body, "timed_out")
            /\ \A k \in {"total", "successful", "failed", "skipped"} :
                  ~(HasField(body, "_shards") /\ HasField(body.o._shards, k))
                      => result.val.shards[k] = 0
            /\ (HasField(body, "_shards") /\ HasField(body.o._shards, "skipped"))
                  => result.val.shards = [total |-> 2, successful |-> 2,
                                          failed |-> 0, skipped |-> 1]

\* An object-wrapped total of 2 has been normalised to 2, in a response that
\* has neither took nor timed_out nor _shards
C11_Witness ==
    /\ Normalised
    /\ task.arg = Object({<<"hits", Object({<<"hits", JArr(<<>>)>>,
                                             <<"total", Object({<<"value", JNum(2)>>})>>})>>})
    /\ task.val[1].val.total = 2
    /\ task.val[1].val.took = 0
    /\ task.val[1].val.shards.total = 0

\* C12: every handler invocation issues at most one HTTP request over its
\* whole execution, on every path: once the request is out the call only
\* awaits and returns, and a transport failure, a server error or a parse
\* error ends the call without the request being sent again.
C12_AtMostOneRequest ==
    [][\A p \in Procs :
          /\ task'[p].nreq <= 1
          /\ (task'[p].nreq = 1) <=> (task'[p].request # None)
          /\ (task[p].nreq = 1 /\ Stepped(p)) =>
                \/ task'[p] = IdleTask
                \/ /\ task'[p].nreq = 1 /\ task'[p].request = task[p].request
                   /\ task'[p].pc \in {"r_await_body", "c_await_body",
                                       "c_lock_connection", "c_save", "done"}]_vars

\* One call has failed on a transport failure and another on a server error,
\* each after its single request
C12_Witness ==
    \E p, q \in Procs :
        /\ task[p].pc = "done" /\ task[p].nreq = 1 /\ task[p].resp = None
        /\ task[p].result.tag = "Err"
        /\ task[q].pc = "done" /\ task[q].nreq = 1 /\ Rejected(task[q])
        /\ task[q].result.tag = "Err"

\* The failure of connect's send(): the transport error text
ConnectionError(result) ==
    result.tag = "Err" /\ result.err[1] = "Error connecting to Elasticsearch: "

\* Task t has computed the Authorization value of a descriptor, and the value
\* has a character no header value can hold
AttachedInvalidAuthorization(t) ==
    \/ t.op = "connect" /\ t.pc \notin {"c_lock_client", "c_client", "c_send"}
          /\ InvalidAuthorization(t.connection[1])
    \/ t.op \in ReadOps /\ t.conn # None /\ t.pc # "r_send"
          /\ InvalidAuthorization(t.conn[1])

\* C13 as stated: in connect, list indices, execute query and cluster health,
\* an Authorization value with a character that is invalid in a header makes
\* the call fail at once with an EncodingError that is no ConnectionError,
\* without an HTTP request.
C13_Original ==
    \A p \in Procs :
        AttachedInvalidAuthorization(task[p]) =>
            /\ task[p].pc = "done"
            /\ task[p].nreq = 0
            /\ task[p].result.tag = "Err"
            /\ ~ConnectionError(task[p].result)

\* A connect call whose api key holds a newline has failed without a request,
\* and its failure is the ConnectionError of a transport failure
C13_Witness ==
    \E p \in Procs :
        /\ Connecting(p) /\ task[p].pc = "done" /\ Submitted(p) = ConnN
        /\ task[p].nreq = 0 /\ task[p].request = None
        /\ task[p].result = Err(connect_error("builder error"))
        /\ ConnectionError(task[p].result)

ClientNotAvailable == Err(<<"HTTP client not available">>)

\* C14: from its first use on the client provider holds a usable client: the
\* first lock of the provider initialises it, with the configured client or,
\* when construction fails, with a default one; it is initialised once and no
\* step of a handler empties or replaces it afterwards; every handler that
\* reads it gets that client, and none fails with "HTTP client not available".
C14_ClientAlwaysAvailable ==
    [][/\ clientInit => (clientInit' /\ CLIENT' = CLIENT)
       /\ clientInit' => CLIENT' \in {Some("configured"), Some("default")}
       /\ clientLock' # Unlocked => clientInit'
       /\ \A p \in Procs :
             /\ task'[p].result # ClientNotAvailable
             /\ task'[p].client \in {None, CLIENT'}]_vars

\* Client construction had failed at the first use; two later calls have
\* both run with the default client, one of them to a successful result
C14_Witness ==
    \E p, q \in Procs :
        /\ p # q /\ CLIENT = Some("default")
        /\ task[p].client = CLIENT /\ task[p].pc = "done" /\ task[p].result.tag = "Ok"
        /\ task[q].client = CLIENT /\ task[q].op \in ReadOps /\ task[q].nreq = 1

\* create_auth_headers has been applied to a descriptor
Built == task.f = "create_auth_headers" /\ task.val # None

BasicCredentials(conn) ==
    conn.auth_type = "basic" /\ conn.username # None /\ conn.password # None

\* The Authorization header the descriptor asks for
ExpectedAuthorization(conn) ==
    IF BasicCredentials(conn)
    THEN Some(BasicPrefix \o STANDARD_encode(conn.username[1] \o Colon \o conn.password[1]))
    ELSE IF conn.auth_type = "apiKey" /\ conn.api_key # None
    THEN Some(ApiKeyPrefix \o conn.api_key[1])
    ELSE None

\* "Basic dTpwdw==" and "Basic dQo6cHc=": the base64 of "u:pw" and of "u\n:pw"
BasicOfUPw == <<66, 97, 115, 105, 99, 32, 100, 84, 112, 119, 100, 119, 61, 61>>
BasicOfUNewlinePw == <<66, 97, 115, 105, 99, 32, 100, 81, 111, 54, 99, 72, 99, 61>>

\* The header set of a build that succeeded is the one the descriptor asks for
HeaderSetFor(conn, headers) ==
    /\ headers.ok
    /\ headers.content_type = "application/json"
    /\ headers.authorization = ExpectedAuthorization(conn)
    /\ (BasicCredentials(conn) /\ conn.username = Some(<<117>>))
          => headers.authorization = Some(BasicOfUPw)
    /\ (BasicCredentials(conn) /\ conn.username = Some(<<117, 10>>))
          => headers.authorization = Some(BasicOfUNewlinePw)

\* C15 as stated: for every descriptor the build succeeds with a header set
\* that has Content-Type: application/json, and an Authorization header
\* exactly when the variant is basic with both credentials present or apiKey
\* with the key present.
C15_Original ==
    Built => HeaderSetFor(task.arg, task.val[1])

\* C15, amended: for every descriptor whose api key (variant apiKey, key
\* present) has no character that is invalid in a header, the build succeeds
\* with Content-Type: application/json and an Authorization header exactly
\* when the variant is basic with both credentials present ("Basic " and the
\* base64 of username:password) or apiKey with the key present ("ApiKey " and
\* the key); for variant none, any other tag and absent credentials there is
\* no Authorization header.  For an api key with an invalid character the
\* build fails with EncodingError and there is no header set.
C15_HeaderSet ==
    Built =>
        IF InvalidAuthorization(task.arg)
        THEN task.val[1] = [ok |-> FALSE, err |-> "failed to parse header value"]
        ELSE HeaderSetFor(task.arg, task.val[1])

\* The headers of a basic descriptor have been built from its user name, which
\* holds a newline, and its password; its api key, which holds one too, is not
\* looked at
C15_Witness ==
    /\ Built
    /\ BasicCredentials(task.arg) /\ task.arg.username = Some(<<117, 10>>)
    /\ task.arg.api_key = Some(<<107, 10>>)
    /\ task.val[1].ok /\ task.val[1].authorization = Some(BasicOfUNewlinePw)

\* A list indices call answered with a success status and a body that is a
\* sequence of records
Listed(t) ==
    /\ t.op = "indices" /\ t.pc = "done" /\ t.resp # None
    /\ is_success(t.resp[1].status) /\ t.resp[1].body # None
    /\ from_str(t.resp[1].body[1]).ok
    /\ from_str(t.resp[1].body[1]).val.t = "arr"
    /\ \A i \in 1..Len(from_str(t.resp[1].body[1]).val.a) :
          from_str(t.resp[1].body[1]).val.a[i].t = "obj"

\* The number a count field stands for: 0 unless it is a numeric string
CountOf(record, k) ==
    IF ~HasField(record, k) \/ record.o[k].t # "str" THEN 0
    ELSE CASE record.o[k].s = "1000" -> 1000
           [] record.o[k].s = "7" -> 7
           [] record.o[k].s = "3" -> 3
           [] record.o[k].s = "1" -> 1
           [] OTHER -> 0

TextOf(record, k) ==
    IF HasField(record, k) /\ record.o[k].t = "str" THEN record.o[k].s ELSE ""

\* The result of task t is one index summary per record of its response, in
\* order, with the defaults for the fields a record lacks
Summarised(t) ==
    LET records == from_str(t.resp[1].body[1]).val.a
        summaries == t.result.val
    IN  /\ t.result.tag = "Ok"
        /\ Len(summaries) = Len(records)
        /\ \A i \in 1..Len(records) :
              /\ summaries[i].name = TextOf(records[i], "index")
              /\ summaries[i].health = TextOf(records[i], "health")
              /\ summaries[i].status = TextOf(records[i], "status")
              /\ summaries[i].storage_size = TextOf(records[i], "store.size")
              /\ summaries[i].docs_count = CountOf(records[i], "docs.count")
              /\ summaries[i].docs_deleted = CountOf(records[i], "docs.deleted")
              /\ summaries[i].primary_shards = CountOf(records[i], "pri")
              /\ summaries[i].replica_shards = CountOf(records[i], "rep")

\* C16 as stated: a success-status _cat/indices response that is a sequence
\* of records gives one index summary per record, in order, and no field of a
\* record makes the call fail: a count field that is missing, no numeric
\* string, or no string at all (null) becomes 0, a missing string field
\* becomes the empty string.
C16_Original ==
    \A p \in Procs : Listed(task[p]) => Summarised(task[p])

\* What holds of it: the same for the responses whose fields are all strings
C16_StringFields ==
    \A p \in Procs :
        (Listed(task[p]) /\ task[p].resp[1].body # Some(IndicesNull))
            => Summarised(task[p])

\* A list indices call has failed on a response whose one record has a null
\* docs.count
C16_Witness ==
    \E p \in Procs :
        /\ Listed(task[p]) /\ task[p].resp[1].body = Some(IndicesNull)
        /\ task[p].result = Err(<<"error decoding response body">>)

\* C17 as stated: once a disconnect has returned, the session store stays
\* empty until a connect call invoked after that disconnect succeeds: no step
\* of a connect call that was in flight when the disconnect returned writes
\* the store.
C17_Original ==
    [][\A p \in Procs : (p \in stale /\ Stepped(p)) => CONNECTION' = CONNECTION]_vars

\* A disconnect has returned while a connect call awaited its response, and
\* the session store now holds the descriptor of that connect call
C17_Witness ==
    \E p, q \in Procs :
        /\ task[q].op = "disconnect" /\ task[q].pc = "done" /\ task[q].result = Ok(TRUE)
        /\ p \in stale /\ Connecting(p) /\ task[p].pc = "done"
        /\ task[p].result.tag = "Ok"
        /\ CONNECTION = task[p].connection

\* Task p is at a lock() call
AtLock(p) ==
    task[p].pc \in {"c_lock_client", "c_lock_connection", "d_lock",
                    "r_lock_connection", "r_lock_client"}

\* The order of the two locks: a reading handler takes the session lock
\* first and the client lock second and drops both together; connect holds
\* the client lock alone and, later, the session lock alone; disconnect holds
\* the session lock only; no task waits for the session lock with a guard in
\* its hands, and whoever holds a guard is not waiting for a lock held by
\* another task
LockOrder ==
    \A p \in Procs :
        /\ clientLock = Some(p) =>
              \/ Connecting(p) /\ task[p].pc = "c_client" /\ connLock # Some(p)
              \/ task[p].op \in ReadOps /\ task[p].pc = "r_read" /\ connLock = Some(p)
        /\ connLock = Some(p) =>
              \/ Connecting(p) /\ task[p].pc = "c_save"
              \/ task[p].op = "disconnect" /\ task[p].pc = "d_clear"
              \/ task[p].op \in ReadOps /\ task[p].pc \in {"r_lock_client", "r_read"}
        /\ task[p].pc \in {"c_lock_client", "c_lock_connection", "d_lock", "r_lock_connection"}
              => (connLock # Some(p) /\ clientLock # Some(p))
        /\ task[p].pc = "r_lock_client" =>
              (connLock = Some(p) /\ clientLock # Some(p)
               /\ \A q \in Procs : clientLock = Some(q) => task[q].pc = "c_client")

\* C18: no interleaving deadlocks on the two locks: the locks are taken in
\* the order of LockOrder, whenever a task is at a lock() call some task can
\* take or drop a guard, and every task at a lock() call eventually has
\* acquired the lock and dropped it again.
C18_NoDeadlock ==
    /\ [](LockOrder /\ ((\E p \in Procs : AtLock(p)) =>
                           \E q \in Procs : ENABLED (Acquire(q) \/ Release(q))))
    /\ \A p \in Procs : AtLock(p) ~> (~AtLock(p) /\ connLock # Some(p) /\ clientLock # Some(p))

\* A reading handler holds the session guard and waits for the client lock,
\* which a connect call holds
C18_Witness ==
    \E p, q \in Procs :
        /\ task[p].pc = "r_lock_client" /\ connLock = Some(p)
        /\ Connecting(q) /\ clientLock = Some(q)

\* The path of the request of a reading handler
RequestPath(t) ==
    CASE t.op = "indices" -> <<"/_cat/indices?format=json&v=true">>
      [] t.op = "query" -> <<"/", t.index[1], "/_search">>
      [] t.op = "health" -> <<"/_cluster/health">>

\* The scheme, host and port of a descriptor
TargetOf(conn) ==
    <<IF conn.ssl = Some(TRUE) THEN "https" ELSE "http", "://", conn.host, ":", conn.port>>

\* C19: a list indices, execute query or cluster health call reads the
\* session store once, in the block at its start: the snapshot it took there
\* never changes while the call runs, whatever disconnect and connect do to
\* the store meanwhile; the request it sends goes to the host of the snapshot
\* with the credentials of the snapshot, and after the read the call never
\* fails with NotConnectedError.
C19_RequestFromSnapshot ==
    [][\A p \in Procs :
          (task[p].op \in ReadOps /\ task[p].conn # None /\ task'[p] # IdleTask) =>
             /\ task'[p].conn = task[p].conn
             /\ task'[p].result # NotConnectedError
             /\ task'[p].request # None =>
                   /\ task'[p].request[1].url = TargetOf(task[p].conn[1]) \o RequestPath(task[p])
                   /\ task'[p].request[1].authorization
                         = ExpectedAuthorization(task[p].conn[1])
             /\ (task[p].pc = "r_send" /\ Stepped(p) /\ ~InvalidQuery(task[p]))
                   => task'[p].request # None]_vars

\* A reading handler took its snapshot, a connect call then stored another
\* descriptor, and the handler has completed with a result for the request it
\* sent to the host of its snapshot with the credentials of its snapshot
C19_Witness ==
    \E p \in Procs :
        /\ task[p].op \in ReadOps /\ task[p].pc = "done" /\ task[p].result.tag = "Ok"
        /\ task[p].conn = Some(ConnB) /\ CONNECTION = Some(ConnA)
        /\ task[p].request[1].url[3] = "es-b"
        /\ task[p].request[1].authorization = Some(BasicOfUPw)

====
